---- MODULE Spec2Model ----
(***************************************************************************)
(* A model of the NNUE layer AffineTransform<PreviousLayer, OutputDims>    *)
(* (src/nnue/layers/affine_transform.h): its structural hash, its          *)
(* parameter loading from a byte stream, and its forward propagation with  *)
(* the four build-selected kernels (AVX2, SSSE3, ARM NEON, portable).      *)
(*                                                                         *)
(* Numbers.  TLC's integers are the signed 32-bit integers, so an int32 of *)
(* the program is an integer of the model and every 32-bit addition is     *)
(* done on 16-bit halves (WrapAdd32) so that it wraps instead of leaving   *)
(* the range.  Unsigned 32-bit values (the hash) are pairs <<hi, lo>> of   *)
(* 16-bit halves.  Memory (parameters, stream) is made of bytes 0..255.    *)
(***************************************************************************)
EXTENDS Integers, Sequences, FiniteSets

VARIABLES
    dims,      \* chain shape <<In, O_1, .., O_D>>: stage k maps dims[k] -> dims[k+1]
    kernel,    \* the kernel the build selected
    biasMem,   \* biasMem[k]: the bytes of stage k's biases_ array
    weightMem, \* weightMem[k]: the bytes of stage k's weights_ array
    stream,    \* the std::istream: [data, pos, fail]
    baseOk,    \* what the input layer's ReadParameters returns
    lres,      \* lres[k]: result of stage k's ReadParameters ("none" before it returns)
    lcall,     \* the stage whose ReadParameters is executing (-1: not called, 0: input layer)
    src,       \* the arrays the stream was serialized from
    feat,      \* feat[e]: transformed features handed to evaluation e
    buf,       \* buf[e]: evaluation e's scratch buffer, one entry per 4-byte word
    epc,       \* epc[e]: 0 not started, k: stage k is next to run its kernel, D+1 returned
    hpc,       \* GetHashValue: position in the function
    hOut,      \* GetHashValue: OutputDimensions of the stage
    hPrev,     \* GetHashValue: PreviousLayer::GetHashValue()
    hash       \* GetHashValue: hash_value

vars == <<dims, kernel, biasMem, weightMem, stream, baseOk, lres, lcall, src,
          feat, buf, epc, hpc, hOut, hPrev, hash>>

loadVars == <<stream, lres, lcall>>
hashVars == <<hpc, hOut, hPrev, hash>>

----------------------------------------------------------------------------
(* Bounds of the model *)

MaxDepth == 2      \* affine stages in a chain
MaxOut == 2        \* OutputDimensions of a stage: 1..MaxOut
NumEval == 2       \* concurrent evaluations

(* Program constants of nnue_common.h, used at the lines named *)
kMaxSimdWidth == 32
kCacheLineSize == 64

Byte == 0..255
Kernels == {"AVX2", "SSSE3", "ARM", "SCALAR"}

(* kSimdWidth of the build: 32 bytes with AVX2, 16 with SSSE3 and NEON *)
kSimdWidth(kn) == IF kn = "AVX2" THEN 32 ELSE 16

----------------------------------------------------------------------------
(* Integer helpers *)

Min(a, b) == IF a < b THEN a ELSE b
Max(a, b) == IF a > b THEN a ELSE b

RECURSIVE SumTo(_, _)
SumTo(s, n) == IF n = 0 THEN 0 ELSE s[n] + SumTo(s, n - 1)
SumSeq(s) == SumTo(s, Len(s))

(* CeilToMultiple(n, base) of nnue_common.h: (n + base - 1) / base * base *)
CeilToMultiple(n, base) == ((n + base - 1) \div base) * base

(* int32 addition as the hardware does it: modulo 2^32, on 16-bit halves *)
Half(q) == ((q + 32768) % 65536) - 32768
WrapAdd32(a, b) ==
    LET r == (a % 65536) + (b % 65536)
        q == (a \div 65536) + (b \div 65536) + (r \div 65536)
    IN  Half(q) * 65536 + (r % 65536)

(* TRUE iff a + b leaves the int32 range (signed overflow: undefined in C++) *)
AddOverflows(a, b) ==
    LET r == (a % 65536) + (b % 65536)
        q == (a \div 65536) + (b \div 65536) + (r \div 65536)
    IN  q < -32768 \/ q > 32767

(* saturation to int16, as _mm_maddubs_epi16 does *)
Sat16(x) == Max(-32768, Min(32767, x))
(* wrap to int16, as the NEON vmlal_s8 accumulate does *)
Wrap16(x) == ((x + 32768) % 65536) - 32768

(* a byte read as std::int8_t / a std::int8_t stored as a byte *)
AsInt8(b) == IF b >= 128 THEN b - 256 ELSE b
AsByte(v) == v % 256

(* four bytes in memory read as a little-endian std::int32_t *)
AsInt32(b0, b1, b2, b3) == Half(b2 + 256 * b3) * 65536 + (b0 + 256 * b1)

----------------------------------------------------------------------------
(* Shape of a chain *)

Depth == Len(dims) - 1
Stages == 1..Depth

kInputDimensions(k) == dims[k]
kOutputDimensions(k) == dims[k + 1]
kPaddedInputDimensions(k) == CeilToMultiple(kInputDimensions(k), kMaxSimdWidth)

(* bytes of the forward propagation buffer used by stage k itself *)
kSelfBufferSize(k) == CeilToMultiple(kOutputDimensions(k) * 4, kCacheLineSize)

(* bytes of the buffer used from the input layer up to stage k (input layer: 0) *)
RECURSIVE kBufferSize(_)
kBufferSize(k) == IF k = 0 THEN 0 ELSE kBufferSize(k - 1) + kSelfBufferSize(k)

----------------------------------------------------------------------------
(* Structural hash.  A std::uint32_t is a pair <<hi, lo>> of 16-bit halves. *)

RECURSIVE Xor16(_, _, _)
Xor16(a, b, n) ==
    IF n = 0 THEN 0
    ELSE (IF (a % 2) = (b % 2) THEN 0 ELSE 1) + 2 * Xor16(a \div 2, b \div 2, n - 1)

(* a ^ b *)
Xor32(a, b) == <<Xor16(a[1], b[1], 16), Xor16(a[2], b[2], 16)>>
(* a + n for a small unsigned n, modulo 2^32 *)
AddU32(a, n) == <<(a[1] + ((a[2] + n) \div 65536)) % 65536, (a[2] + n) % 65536>>
(* a >> 1 *)
ShiftRight1(a) == <<a[1] \div 2, (a[2] \div 2) + (a[1] % 2) * 32768>>
(* variant of ShiftLeft31: the shift count is off by one *)
ShiftLeft30(a) == <<(a[2] % 4) * 16384, 0>>
(* a << 31, truncated to 32 bits *)
ShiftLeft31(a) == <<(a[2] % 2) * 32768, 0>>

(* 0xCC03DAE4u *)
kHashSeed == <<52227, 56036>>

(* hash values of the layer below the innermost affine stage (an input    *)
(* slice or an activation layer; they are not part of this file)          *)
PrevHashes ==
    {<<0, 0>>, <<0, 1>>, <<65535, 65535>>, <<32768, 0>>, <<32768, 1>>,
     <<60482, 59661>>, <<21389, 9415>>, <<1, 65534>>, <<43690, 21845>>}

(* chain shapes whose hash is computed: OutputDimensions includes 9500,   *)
(* the least value for which the addition carries into the high half      *)
HashOuts == (1..MaxOut) \cup {32, 9500}
HashShapes ==
    UNION {[1..(d + 1) -> HashOuts] : d \in 1..MaxDepth}

HashInit ==
    /\ dims \in HashShapes
    /\ hPrev \in PrevHashes
    /\ hOut = 1
    /\ hpc = "l37"
    /\ hash = <<0, 0>>
    /\ kernel = "SCALAR"
    /\ biasMem = <<>> /\ weightMem = <<>>
    /\ stream = [data |-> <<>>, pos |-> 0, fail |-> FALSE]
    /\ baseOk = TRUE /\ lres = <<>> /\ lcall = -1 /\ src = <<>>
    /\ feat = <<>> /\ buf = <<>> /\ epc = <<>>

hashFrame == UNCHANGED <<dims, kernel, biasMem, weightMem, stream, baseOk, lres,
                         lcall, src, feat, buf, epc>>

(* std::uint32_t hash_value = 0xCC03DAE4u; *)
HashSeed ==
    /\ hpc = "l37"
    /\ hash' = kHashSeed
    /\ hpc' = "l38"
    /\ UNCHANGED <<hOut, hPrev>> /\ hashFrame

(* hash_value += kOutputDimensions; *)
HashAddDims ==
    /\ hpc = "l38"
    /\ hash' = AddU32(hash, kOutputDimensions(hOut))
    /\ hpc' = "l39"
    /\ UNCHANGED <<hOut, hPrev>> /\ hashFrame

(* hash_value ^= PreviousLayer::GetHashValue() >> 1; *)
HashXorShr ==
    /\ hpc = "l39"
    /\ hash' = Xor32(hash, ShiftRight1(hPrev))
    /\ hpc' = "l40"
    /\ UNCHANGED <<hOut, hPrev>> /\ hashFrame

(* hash_value ^= PreviousLayer::GetHashValue() << 31; return hash_value; *)
HashXorShl ==
    /\ hpc = "l40"
    /\ hash' = Xor32(hash, ShiftLeft31(hPrev))
    /\ hpc' = "ret"
    /\ UNCHANGED <<hOut, hPrev>> /\ hashFrame

(* the next stage out calls GetHashValue: this stage's value is its      *)
(* PreviousLayer::GetHashValue()                                          *)
HashOuter ==
    /\ hpc = "ret"
    /\ hOut < Depth
    /\ hPrev' = hash
    /\ hOut' = hOut + 1
    /\ hpc' = "l37"
    /\ UNCHANGED hash /\ hashFrame

HashNext == HashSeed \/ HashAddDims \/ HashXorShr \/ HashXorShl \/ HashOuter

SpecHash == HashInit /\ [][HashNext]_vars

(* ---- C7 ---- *)
(* C7: when GetHashValue returns, bit b of the result is bit b of          *)
(* (0xCC03DAE4 + OutputDimensions) mod 2^32 exclusive-or bit (b + 1) mod   *)
(* 32 of the upstream hash h: h >> 1 supplies bits 1..31 of h at 0..30,    *)
(* (h << 31) mod 2^32 supplies bit 0 of h at 31.  The value is fixed by    *)
(* the OutputDimensions and the upstream hash alone.                       *)
RECURSIVE Pow2(_)
Pow2(n) == IF n = 0 THEN 1 ELSE 2 * Pow2(n - 1)
Bit(a, b) == IF b < 16 THEN (a[2] \div Pow2(b)) % 2 ELSE (a[1] \div Pow2(b - 16)) % 2
MathSeedPlus(o) ==
    LET low == 56036 + (o % 65536)
    IN  <<(52227 + (o \div 65536) + (low \div 65536)) % 65536, low % 65536>>
C7_HashFormula ==
    hpc = "ret" =>
        \A b \in 0..31 :
            Bit(hash, b) =
                (Bit(MathSeedPlus(dims[hOut + 1]), b) + Bit(hPrev, (b + 1) % 32)) % 2

(* witness: the outer stage of a chain has returned its hash; its          *)
(* OutputDimensions make the addition carry and the upstream hash is odd   *)
C7_Witness ==
    /\ hpc = "ret" /\ hOut = 2
    /\ dims[3] = 9500
    /\ hPrev[2] % 2 = 1

----------------------------------------------------------------------------
(* Parameter arrays and their byte layout *)

(* a std::int32_t as its four bytes in memory, least significant first *)
Int32Bytes(v) ==
    <<v % 256, (v \div 256) % 256, (v \div 65536) % 256, (v \div 16777216) % 256>>

RECURSIVE Flatten(_)
Flatten(ss) == IF ss = <<>> THEN <<>> ELSE Head(ss) \o Flatten(Tail(ss))

(* the arrays of one stage written out as the file holds them: the biases *)
(* in index order, then the weights row by row, nothing in between        *)
SerializeStage(p) ==
    Flatten([i \in 1..Len(p.biases) |-> Int32Bytes(p.biases[i])])
        \o [n \in 1..Len(p.weights) |-> AsByte(p.weights[n])]

(* the whole chain: the innermost stage's section first *)
SerializeChain(ps) == Flatten([k \in 1..Len(ps) |-> SerializeStage(ps[k])])

(* the memory image of arrays set directly (no stream involved) *)
BiasImage(p) == Flatten([i \in 1..Len(p.biases) |-> Int32Bytes(p.biases[i])])
WeightImage(p) == [n \in 1..Len(p.weights) |-> AsByte(p.weights[n])]

(* biases_[i] and weights_[n] as Propagate reads them, i and n from 0 *)
biases_(k, i) ==
    AsInt32(biasMem[k][4 * i + 1], biasMem[k][4 * i + 2],
            biasMem[k][4 * i + 3], biasMem[k][4 * i + 4])
weights_(k, n) == AsInt8(weightMem[k][n + 1])

(* what the arrays hold before anything was loaded into them: bytes that  *)
(* no serialized pattern below produces in the same places                *)
UnloadedByte(n) == 85 + (n % 2) * 85
UnloadedBias(shape, k) == [n \in 1..(shape[k + 1] * 4) |-> UnloadedByte(n)]
UnloadedWeight(shape, k) ==
    [n \in 1..(shape[k + 1] * CeilToMultiple(shape[k], kMaxSimdWidth)) |->
        UnloadedByte(n)]

----------------------------------------------------------------------------
(* Arrays the model loads and evaluates.  A row has non-zero weights only  *)
(* in its first two columns and in its last true column; the padding       *)
(* columns are zero (invariant I1 of the format).                          *)

ParamPatterns ==
    { [b |-> 0,           w |-> <<0, 0, 0>>],
      [b |-> 16909060,    w |-> <<127, 127, 1>>],
      [b |-> -2,          w |-> <<-128, -128, -1>>],
      [b |-> 2147483647,  w |-> <<1, -1, 127>>],
      [b |-> -2147483647, w |-> <<-1, 1, -128>>],
      [b |-> 1000,        w |-> <<127, -128, 5>>] }

(* weight of row i, column j (both from 0) of a stage with n true inputs *)
PatternWeight(pat, n, i, j) ==
    LET a == IF i % 2 = 0 THEN pat.w[1] ELSE pat.w[2]
        c == IF i % 2 = 0 THEN pat.w[2] ELSE pat.w[1]
    IN  IF j = n - 1 /\ j >= 2 THEN pat.w[3]
        ELSE IF j = 0 THEN a
        ELSE IF j = 1 /\ j < n THEN c
        ELSE 0

PatternBias(pat, k, i) ==
    IF i = 0 THEN pat.b ELSE WrapAdd32(pat.b, 65536 * k + 257 * i)

PatternStage(pat, shape, k) ==
    LET n == shape[k]
        o == shape[k + 1]
        p == CeilToMultiple(n, kMaxSimdWidth)
    IN  [biases  |-> [i \in 1..o |-> PatternBias(pat, k, i - 1)],
         weights |-> [m \in 1..(o * p) |->
                         PatternWeight(pat, n, (m - 1) \div p, (m - 1) % p)]]

PatternChain(pat, shape) ==
    [k \in 1..(Len(shape) - 1) |-> PatternStage(pat, shape, k)]

----------------------------------------------------------------------------
loadFrame == UNCHANGED <<dims, kernel, baseOk, src, feat, buf, epc, hashVars>>

(* std::istream::read(dest, n): nothing when the stream already failed;    *)
(* otherwise it stores the bytes it can get, and sets failbit when they    *)
(* are fewer than n.  Returns the stream and the destination afterwards.   *)

StreamRead(st, mem, n) ==
    IF st.fail THEN [st |-> st, mem |-> mem]
    ELSE LET got == Min(n, Len(st.data) - st.pos)
         IN  [st  |-> [st EXCEPT !.pos = st.pos + got, !.fail = (got < n)],
              mem |-> [m \in 1..Len(mem) |->
                          IF m <= got THEN st.data[st.pos + m] ELSE mem[m]]]

(* variant of ReadBiases: the element size of the weights is used *)
ReadBiasesNarrow(st, k) ==
    StreamRead(st, biasMem[k], kOutputDimensions(k))
(* variant of ReadWeights: the rows are read without their padding *)
ReadWeightsUnpadded(st, k) ==
    StreamRead(st, weightMem[k], kOutputDimensions(k) * kInputDimensions(k))

(* the two reads of ReadParameters, lines 55-59 *)
ReadBiases(st, k) ==
    StreamRead(st, biasMem[k], kOutputDimensions(k) * 4)
ReadWeights(st, k) ==
    StreamRead(st, weightMem[k], kOutputDimensions(k) * kPaddedInputDimensions(k))


(* the outermost stage's ReadParameters is called; every stage's first     *)
(* statement calls the upstream stage's, down to the input layer           *)
LoadCall ==
    /\ lcall = -1
    /\ lcall' = 0
    /\ UNCHANGED <<stream, lres, biasMem, weightMem>> /\ loadFrame

(* the input layer's ReadParameters returns; it holds no parameters *)
LoadInputLayer ==
    /\ lcall = 0
    /\ lres[1] = "none"
    /\ lres' = [lres EXCEPT ![1] = IF baseOk THEN "ok" ELSE "fail"]
    /\ lcall' = 1
    /\ UNCHANGED <<stream, biasMem, weightMem>> /\ loadFrame

(* variant of ReadParameters: the upstream result is not tested before the *)
(* reads, only returned                                                    *)
ReadParametersNoEarlyReturn(k) ==
    /\ lcall = k
    /\ k \in Stages
    /\ LET r1 == ReadBiases(stream, k)
           r2 == ReadWeights(r1.st, k)
       IN  /\ biasMem' = [biasMem EXCEPT ![k] = r1.mem]
           /\ weightMem' = [weightMem EXCEPT ![k] = r2.mem]
           /\ stream' = r2.st
           /\ lres' = [lres EXCEPT ![k + 1] =
                          IF lres[k] = "ok" /\ ~r2.st.fail THEN "ok" ELSE "fail"]
    /\ lcall' = k + 1
    /\ loadFrame

(* ReadParameters of stage k, from the return of the upstream call on.     *)
(* lres[k] is the upstream stage's result, lres[k + 1] this stage's.       *)
ReadParameters(k) ==
    /\ lcall = k
    /\ k \in Stages
    /\ IF lres[k] # "ok"
       THEN /\ lres' = [lres EXCEPT ![k + 1] = "fail"]
            /\ UNCHANGED <<stream, biasMem, weightMem>>
       ELSE LET r1 == ReadBiases(stream, k)
                r2 == ReadWeights(r1.st, k)
            IN  /\ biasMem' = [biasMem EXCEPT ![k] = r1.mem]
                /\ weightMem' = [weightMem EXCEPT ![k] = r2.mem]
                /\ stream' = r2.st
                /\ lres' = [lres EXCEPT ![k + 1] = IF r2.st.fail THEN "fail" ELSE "ok"]
    /\ lcall' = k + 1
    /\ loadFrame

LoadStep == \E k \in 1..MaxDepth : ReadParameters(k)

(* the result of the outermost ReadParameters, "none" while it runs *)
LoadResult == lres[Depth + 1]

----------------------------------------------------------------------------
(* Forward propagation.  A scratch buffer is a function from word index    *)
(* (byte offset / 4) to <<>> (never written) or <<v>> (the int32 v).       *)

(* variant of BufferOffset: a stage skips its own size, not the size of the *)
(* stage that called it                                                    *)
RECURSIVE BufferOffsetOwnSize(_)
BufferOffsetOwnSize(k) ==
    IF k >= Depth THEN 0 ELSE BufferOffsetOwnSize(k + 1) + kSelfBufferSize(k)

(* where stage k's output starts in the buffer, in bytes: the outermost    *)
(* stage gets `buffer`, and hands `buffer + kSelfBufferSize` upstream      *)
RECURSIVE BufferOffset(_)
BufferOffset(k) ==
    IF k >= Depth THEN 0 ELSE BufferOffset(k + 1) + kSelfBufferSize(k + 1)

(* words past the end of the buffer that the model keeps, to see a write   *)
(* that leaves the buffer                                                  *)
SlackWords == 16
BufferWords == kBufferSize(Depth) \div 4
BufferIndex == 0..(BufferWords + SlackWords - 1)

(* the activation layer between two affine stages (not part of this file): *)
(* it turns an int32 output into an unsigned 8-bit activation              *)
Activation(w) == IF w = <<>> THEN UnloadedByte(0) ELSE Max(0, Min(127, w[1] \div 64))

(* the vector the upstream Propagate returns to stage k: the transformed   *)
(* features for the innermost stage, else the activations of stage k - 1's *)
(* output as buffer b holds them, zero in the padding entries.  x[j + 1]   *)
(* is input[j].                                                            *)
StageInput(e, k, b) ==
    IF k = 1 THEN feat[e]
    ELSE [j \in 1..kPaddedInputDimensions(k) |->
             IF j <= kInputDimensions(k)
             THEN Activation(b[(BufferOffset(k - 1) \div 4) + (j - 1)])
             ELSE 0]

(* variant of RowOffset: the row stride is the true input length *)
RowOffsetUnpadded(k, i) == i * kInputDimensions(k)

(* const IndexType offset = i * kPaddedInputDimensions; *)
RowOffset(k, i) == i * kPaddedInputDimensions(k)

(* a kernel's result for one output: v is the value under wrapping         *)
(* arithmetic, ub tells that a signed int addition of the C++ source       *)
(* overflowed on the way (undefined behaviour)                             *)

(* portable kernel, lines 137-141 *)
RECURSIVE ScalarLoop(_, _, _, _, _, _)
ScalarLoop(k, i, x, j, sum, ub) ==
    IF j >= kInputDimensions(k) THEN [v |-> sum, ub |-> ub]
    ELSE LET t == weights_(k, RowOffset(k, i) + j) * x[j + 1]
         IN  IF AddOverflows(sum, t)
             THEN ScalarLoop(k, i, x, j + 1, WrapAdd32(sum, t), TRUE)
             ELSE ScalarLoop(k, i, x, j + 1, WrapAdd32(sum, t), ub)
ScalarKernel(k, i, x) == ScalarLoop(k, i, x, 0, biases_(k, i), FALSE)

(* _mm256_maddubs_epi16 / _mm_maddubs_epi16, 16-bit element t of chunk     *)
(* starting at byte c: unsigned input bytes times signed weight bytes,     *)
(* adjacent products added with signed saturation                          *)
Maddubs(k, i, x, c, t) ==
    Sat16(x[c + 2 * t + 1] * weights_(k, RowOffset(k, i) + c + 2 * t)
          + x[c + 2 * t + 2] * weights_(k, RowOffset(k, i) + c + 2 * t + 1))

(* _mm256_madd_epi16(product, kOnes), 32-bit element u *)
MaddOnes(k, i, x, c, u) == Maddubs(k, i, x, c, 2 * u) + Maddubs(k, i, x, c, 2 * u + 1)

(* 32-bit lane u of `sum` after the chunk loop of an x86 kernel whose      *)
(* vectors hold w bytes; lane 0 starts as biases_[i], the others as 0      *)
RECURSIVE X86Lane(_, _, _, _, _, _, _)
X86Lane(k, i, x, w, u, j, acc) ==
    IF j >= kPaddedInputDimensions(k) \div w THEN acc
    ELSE X86Lane(k, i, x, w, u, j + 1, WrapAdd32(acc, MaddOnes(k, i, x, j * w, u)))
X86Sum(k, i, x, w, u) ==
    X86Lane(k, i, x, w, u, 0, IF u = 0 THEN biases_(k, i) ELSE 0)

(* two _mm_hadd_epi32(sum, sum) on four lanes starting at lane u0 *)
Hadd2(k, i, x, w, u0) ==
    WrapAdd32(WrapAdd32(X86Sum(k, i, x, w, u0), X86Sum(k, i, x, w, u0 + 1)),
              WrapAdd32(X86Sum(k, i, x, w, u0 + 2), X86Sum(k, i, x, w, u0 + 3)))

(* AVX2 kernel, lines 89-111: output[i] = cvtsi128(lo) + cvtsi128(hi) *)
Avx2Kernel(k, i, x) ==
    LET lo == Hadd2(k, i, x, 32, 0)
        hi == Hadd2(k, i, x, 32, 4)
    IN  [v |-> WrapAdd32(lo, hi), ub |-> AddOverflows(lo, hi)]

(* SSSE3 kernel, lines 114-124 *)
Ssse3Kernel(k, i, x) == [v |-> Hadd2(k, i, x, 16, 0), ub |-> FALSE]

(* ARM kernel: `product` element t (16 bits) for chunk j.  The input bytes *)
(* are loaded as int8x8_t, so they are read as signed.                     *)
Vmull(k, i, x, c, t) == AsInt8(x[c + t + 1]) * weights_(k, RowOffset(k, i) + c + t)
Vmlal(k, i, x, c, t) == Wrap16(Vmull(k, i, x, c, t) + Vmull(k, i, x, c + 8, t))

(* vpadalq_s16: lane u of sum += product[2u] + product[2u + 1] *)
RECURSIVE ArmLane(_, _, _, _, _, _)
ArmLane(k, i, x, u, j, acc) ==
    IF j >= kPaddedInputDimensions(k) \div 16 THEN acc
    ELSE ArmLane(k, i, x, u, j + 1,
                 WrapAdd32(acc, Vmlal(k, i, x, 16 * j, 2 * u)
                                + Vmlal(k, i, x, 16 * j, 2 * u + 1)))
ArmSum(k, i, x, u) == ArmLane(k, i, x, u, 0, IF u = 0 THEN biases_(k, i) ELSE 0)

(* ARM kernel, lines 127-134: output[i] = sum[0] + sum[1] + sum[2] + sum[3] *)
ArmKernel(k, i, x) ==
    LET s0 == ArmSum(k, i, x, 0)
        s1 == ArmSum(k, i, x, 1)
        s2 == ArmSum(k, i, x, 2)
        s3 == ArmSum(k, i, x, 3)
        a == WrapAdd32(s0, s1)
        b == WrapAdd32(a, s2)
    IN  [v |-> WrapAdd32(b, s3),
         ub |-> AddOverflows(s0, s1) \/ AddOverflows(a, s2) \/ AddOverflows(b, s3)]

(* the kernel the preprocessor selected, lines 88-142 *)
Kernel(kn, k, i, x) ==
    IF kn = "AVX2" THEN Avx2Kernel(k, i, x)
    ELSE IF kn = "SSSE3" THEN Ssse3Kernel(k, i, x)
    ELSE IF kn = "ARM" THEN ArmKernel(k, i, x)
    ELSE ScalarKernel(k, i, x)

(* what a build may store when a signed addition overflowed: the wrapped   *)
(* value, or whatever the optimizer made of the undefined operation        *)
UbOutcomes == <<0, 2147483647, -2147483647 - 1>>

(* the loop over the outputs, line 85: output[i] is stored at word         *)
(* BufferOffset / 4 + i of buffer b; each row reads the input as the       *)
(* buffer holds it at that time.  u > 0 selects what is stored when the    *)
(* row's addition overflowed.  Returns the buffer and whether any row's    *)
(* addition overflowed.                                                    *)
RECURSIVE OutputLoop(_, _, _, _, _, _)
OutputLoop(e, k, i, b, u, ub) ==
    IF i >= kOutputDimensions(k) THEN [b |-> b, ub |-> ub]
    ELSE LET at == (BufferOffset(k) \div 4) + i
         IN  \* r and nb range over one value each: the row's result and the
             \* buffer after the store
             CHOOSE res \in
                 UNION {{OutputLoop(e, k, i + 1, nb, u, ub \/ r.ub) :
                            nb \in {[b EXCEPT ![at] =
                                       <<IF r.ub /\ u > 0 THEN UbOutcomes[u] ELSE r.v>>]}}
                        : r \in {Kernel(kernel, k, i, StageInput(e, k, b))}} : TRUE

propFrame == UNCHANGED <<dims, kernel, biasMem, weightMem, stream, baseOk, lres,
                         lcall, src, feat, hashVars>>

(* whether the network is loaded: Propagate is called only then *)
Loaded == lcall = Depth + 1 /\ LoadResult = "ok"

(* Propagate is called on the outermost stage with evaluation e's buffer;  *)
(* every stage first calls the upstream Propagate, so the kernels run from *)
(* the innermost stage outwards                                            *)
PropagateCall(e) ==
    /\ Loaded
    /\ epc[e] = 0
    /\ epc' = [epc EXCEPT ![e] = 1]
    /\ UNCHANGED buf /\ propFrame

(* variant of Propagate: the sums are accumulated in biases_ itself *)
PropagateInPlace(e) ==
    /\ epc[e] \in Stages
    /\ \E r \in {OutputLoop(e, epc[e], 0, buf[e], 0, FALSE)} :
          /\ buf' = [buf EXCEPT ![e] = r.b]
          /\ biasMem' = [biasMem EXCEPT ![epc[e]] =
                 Flatten([i \in 1..kOutputDimensions(epc[e]) |->
                     Int32Bytes(r.b[(BufferOffset(epc[e]) \div 4) + i - 1][1])])]
    /\ epc' = [epc EXCEPT ![e] = epc[e] + 1]
    /\ UNCHANGED <<dims, kernel, weightMem, stream, baseOk, lres, lcall, src, feat,
                   hashVars>>

(* stage epc[e] computes its outputs and returns the pointer to them *)
Propagate(e) ==
    /\ epc[e] \in Stages
    /\ \E r \in {OutputLoop(e, epc[e], 0, buf[e], 0, FALSE)} :
          \E u \in IF r.ub THEN 0..Len(UbOutcomes) ELSE {0} :
              buf' = [buf EXCEPT ![e] =
                         IF u = 0 THEN r.b
                         ELSE OutputLoop(e, epc[e], 0, buf[e], u, FALSE).b]
    /\ epc' = [epc EXCEPT ![e] = epc[e] + 1]
    /\ propFrame


----------------------------------------------------------------------------
(* Inputs of the model *)

(* chain shapes: the innermost InputDimensions from ins, one to MaxDepth    *)
(* stages, the innermost stage's OutputDimensions from outs and one        *)
(* OutputDimensions, from outs, for the stages outside it                  *)
Shapes(ins, outs) ==
    {<<n, o>> : n \in ins, o \in outs}
    \cup UNION {{<<n, o>> \o [k \in 1..(d - 1) |-> q] :
                    n \in ins, o \in outs, q \in outs} : d \in 2..MaxDepth}

(* InputDimensions below, at and one past a multiple of kMaxSimdWidth *)
InDims == {2, 32, 33}
(* 17 outputs take more than one cache line of the buffer *)
WideShapes == {<<2, 17>>, <<2, 17, 1>>, <<33, 1, 17>>}
PropShapes == Shapes(InDims, 1..MaxOut) \cup WideShapes

(* transformed features: non-zero only in the first two entries and in the *)
(* last true entry, zero in the padding entries                            *)
FeaturePatterns ==
    {<<0, 0, 0>>, <<127, 127, 127>>, <<128, 1, 200>>, <<255, 255, 255>>}
FeatureVector(f, n) ==
    [j \in 1..CeilToMultiple(n, kMaxSimdWidth) |->
        IF j = n /\ j >= 3 THEN f[3]
        ELSE IF j = 1 THEN f[1]
        ELSE IF j = 2 /\ j <= n THEN f[2]
        ELSE 0]
Features(n) == {FeatureVector(f, n) : f \in FeaturePatterns}

NoStream == [data |-> <<>>, pos |-> 0, fail |-> FALSE]
FreshBuffer(shape) ==
    LET words == SumSeq([k \in 1..(Len(shape) - 1) |->
                     CeilToMultiple(shape[k + 1] * 4, kCacheLineSize)]) \div 4
    IN  [w \in 0..(words + SlackWords - 1) |-> <<>>]

hashIdle == hpc = "idle" /\ hOut = 0 /\ hPrev = <<0, 0>> /\ hash = <<0, 0>>

(* the arrays hold what a successful load or the trainer put in them;      *)
(* evals evaluations are then run, each on a buffer of its own             *)
LoadedInit(shapes, pats, evals) ==
    /\ dims \in shapes
    /\ kernel \in Kernels
    /\ \E pat \in pats :
          /\ src = PatternChain(pat, dims)
          /\ biasMem = [k \in 1..(Len(dims) - 1) |-> BiasImage(src[k])]
          /\ weightMem = [k \in 1..(Len(dims) - 1) |-> WeightImage(src[k])]
    /\ stream = NoStream
    /\ baseOk = TRUE
    /\ lres = [k \in 1..Len(dims) |-> "ok"]
    /\ lcall = Len(dims)
    /\ feat \in [1..evals -> Features(dims[1])]
    /\ buf = [e \in 1..evals |-> FreshBuffer(dims)]
    /\ epc = [e \in 1..evals |-> 0]
    /\ hashIdle

PropInit == LoadedInit(PropShapes, ParamPatterns, 1)
PropNext ==
    \/ \E e \in DOMAIN epc : PropagateCall(e)
    \/ \E e \in DOMAIN epc : Propagate(e)
SpecProp == PropInit /\ [][PropNext]_vars

----------------------------------------------------------------------------
(* Loading a network file *)

(* bytes of stage k's section of the file, and where it starts *)
SectionBytes(shape, k) ==
    shape[k + 1] * 4 + shape[k + 1] * CeilToMultiple(shape[k], kMaxSimdWidth)
SectionStart(shape, k) == SumSeq([j \in 1..(k - 1) |-> SectionBytes(shape, j)])
FileBytes(shape) == SectionStart(shape, Len(shape))

(* lengths at which the stream ends: at and around the boundaries of every *)
(* stage's biases and weights, and past the end of the chain's sections    *)
CutPoints(shape) ==
    {0, FileBytes(shape), FileBytes(shape) + 1}
    \cup UNION {{SectionStart(shape, k) + c :
                    c \in {1, shape[k + 1] * 4 - 1, shape[k + 1] * 4,
                           shape[k + 1] * 4 + 1, SectionBytes(shape, k) - 1}}
                : k \in 1..(Len(shape) - 1)}

(* the first n bytes of the file; what follows the chain's sections in the *)
(* file belongs to another component                                       *)
FilePrefix(ps, n) == SubSeq(SerializeChain(ps) \o <<7>>, 1, n)

LoadInit ==
    /\ dims \in Shapes(InDims, 1..MaxOut)
    /\ kernel = "SCALAR"
    /\ \E pat \in ParamPatterns : src = PatternChain(pat, dims)
    /\ biasMem = [k \in 1..(Len(dims) - 1) |-> UnloadedBias(dims, k)]
    /\ weightMem = [k \in 1..(Len(dims) - 1) |-> UnloadedWeight(dims, k)]
    /\ \E n \in CutPoints(dims) :
          stream = [data |-> FilePrefix(src, n), pos |-> 0, fail |-> FALSE]
    /\ baseOk \in BOOLEAN
    /\ lres = [k \in 1..Len(dims) |-> "none"]
    /\ lcall = -1
    /\ feat = <<>> /\ buf = <<>> /\ epc = <<>>
    /\ hashIdle

LoadNext == LoadCall \/ LoadInputLayer \/ LoadStep
SpecLoad == LoadInit /\ [][LoadNext]_vars

(* ---- C2 ---- *)
(* C2 (as claimed): whenever a stage's ReadParameters has returned failure, *)
(* that stage's biases and weights are what they were before the call.     *)
C2_FailedLoadKeepsParameters ==
    \A k \in Stages :
        lres[k + 1] = "fail" =>
            /\ biasMem[k] = UnloadedBias(dims, k)
            /\ weightMem[k] = UnloadedWeight(dims, k)

(* ---- C3 ---- *)
(* C3: once the outermost ReadParameters has returned, it returned success *)
(* if and only if the input layer's load succeeded and the stream held     *)
(* every bias and weight byte of every stage of the chain; a stream ending *)
(* inside any biases or weights section gives failure.                     *)
MathPadded(n) == IF n % 32 = 0 THEN n ELSE n + (32 - (n % 32))
MathStageBytes(k) == dims[k + 1] * 4 + dims[k + 1] * MathPadded(dims[k])
MathChainBytes == SumSeq([k \in 1..Depth |-> MathStageBytes(k)])
C3_SuccessIffAllBytes ==
    lcall = Depth + 1 =>
        /\ LoadResult \in {"ok", "fail"}
        /\ LoadResult = "ok" <=> (baseOk /\ Len(stream.data) >= MathChainBytes)
        /\ LoadResult = "ok" => stream.pos = MathChainBytes /\ ~stream.fail

(* witness: a two-stage chain whose stream ends inside the outer stage's   *)
(* weights; the outermost load has returned failure                        *)
C3_Witness ==
    /\ Depth = 2 /\ lcall = 3 /\ baseOk
    /\ Len(stream.data) > MathStageBytes(1) + dims[3] * 4
    /\ Len(stream.data) < MathChainBytes
    /\ LoadResult = "fail"

(* ---- C4 ---- *)
(* C4: a step changes a stage's arrays or the stream only while that stage *)
(* is loading and its upstream stage has returned success; once any load   *)
(* of the chain has failed no step reads a byte or changes any array; a    *)
(* stage returns only after its upstream stage; and a failure anywhere     *)
(* makes the outermost load return failure.                                *)
C4_SomeFailed == \E j \in 1..(Depth + 1) : lres[j] = "fail"
C4_StepOrder ==
    /\ \A k \in Stages :
          (biasMem'[k] # biasMem[k] \/ weightMem'[k] # weightMem[k]) =>
              lcall = k /\ lres[k] = "ok"
    /\ stream' # stream => lcall \in Stages /\ lres[lcall] = "ok"
    /\ C4_SomeFailed =>
          stream' = stream /\ biasMem' = biasMem /\ weightMem' = weightMem
C4_Returned ==
    /\ \A k \in Stages : lres[k + 1] # "none" => lres[k] # "none"
    /\ \A k \in Stages : lres[k] = "fail" => lres[k + 1] \in {"none", "fail"}
    /\ (lcall = Depth + 1 /\ C4_SomeFailed) => LoadResult = "fail"
C4_LoadsInnermostFirst == [][C4_StepOrder]_vars /\ []C4_Returned

(* witness: the inner stage of a two-stage chain failed on a short stream  *)
(* that still held bytes, and the outer stage has returned                 *)
C4_Witness ==
    /\ Depth = 2 /\ lcall = 3 /\ baseOk
    /\ lres[2] = "fail" /\ lres[3] = "fail"
    /\ Len(stream.data) > 0
    /\ biasMem[2] = UnloadedBias(dims, 2)

----------------------------------------------------------------------------
(* Statements about forward propagation.  The Math definitions restate the *)
(* specification's arithmetic on the arrays themselves (src), without the  *)
(* program's byte images, offsets and wrapping additions.                  *)

MathBias(k, i) == src[k].biases[i + 1]
MathWeight(k, i, j) == src[k].weights[i * MathPadded(dims[k]) + j + 1]
MathSelfBytes(k) == 64 * ((4 * dims[k + 1] + 63) \div 64)
MathOffsetBytes(k) == SumSeq([j \in 1..(Depth - k) |-> MathSelfBytes(k + j)])
MathTotalBytes == SumSeq([k \in 1..Depth |-> MathSelfBytes(k)])

(* evaluation e's stage k has run; its output i; its input vector *)
Ran(e, k) == epc[e] > k
Output(e, k, i) == buf[e][(MathOffsetBytes(k) \div 4) + i]
MathInput(e, k) ==
    IF k = 1 THEN feat[e]
    ELSE [j \in 1..MathPadded(dims[k]) |->
             IF j <= dims[k] THEN Activation(Output(e, k - 1, j - 1)) ELSE 0]

(* sum of the first n products of row i *)
MathDot(k, i, x, n) == SumSeq([j \in 1..n |-> MathWeight(k, i, j - 1) * x[j]])
(* b + s is a signed 32-bit value *)
MathFits(b, s) ==
    IF s >= 0 THEN b <= 2147483647 - s ELSE b >= (-2147483647 - 1) - s
(* the accumulated sums of row i stay in the 32-bit range (precondition of *)
(* section 4.3 of the specification)                                       *)
MathInRange(k, i, x) ==
    \A n \in (0..dims[k]) \cup {MathPadded(dims[k])} :
        MathFits(MathBias(k, i), MathDot(k, i, x, n))
(* invariant I1: zero padding columns and zero padding entries *)
MathZeroPadded(k, i, x) ==
    \A j \in (dims[k] + 1)..MathPadded(dims[k]) :
        MathWeight(k, i, j - 1) = 0 /\ x[j] = 0

(* ---- C1 ---- *)
(* C1 (as claimed): every output a kernel has stored equals what the       *)
(* portable kernel computes from the same biases, weights and input        *)
(* (whenever neither computation overflows a signed addition).             *)
C1_KernelsAgreeWithScalar ==
    \A e \in DOMAIN epc : \A k \in Stages : Ran(e, k) =>
        \A i \in 0..(kOutputDimensions(k) - 1) :
            LET x == StageInput(e, k, buf[e])
                s == ScalarKernel(k, i, x)
                r == Kernel(kernel, k, i, x)
            IN  (~s.ub /\ ~r.ub) =>
                    buf[e][(BufferOffset(k) \div 4) + i] = <<s.v>>

C6_IntermediatesExact ==
    \A e \in DOMAIN epc : \A k \in Stages : Ran(e, k) =>
        \A i \in 0..(kOutputDimensions(k) - 1) :
            LET x == StageInput(e, k, buf[e])
                p == kPaddedInputDimensions(k)
            IN  /\ kernel \in {"AVX2", "SSSE3"} =>
                       \A t \in 0..((p \div 2) - 1) :
                           Maddubs(k, i, x, 0, t) =
                               x[2 * t + 1] * MathWeight(k, i, 2 * t)
                               + x[2 * t + 2] * MathWeight(k, i, 2 * t + 1)
                /\ kernel = "ARM" =>
                       \A c \in 0..((p \div 16) - 1) : \A t \in 0..7 :
                           Vmlal(k, i, x, 16 * c, t) =
                               x[16 * c + t + 1] * MathWeight(k, i, 16 * c + t)
                               + x[16 * c + t + 9] * MathWeight(k, i, 16 * c + t + 8)

(* ---- C8 ---- *)
(* C8: the stages' sub-regions (the outermost at offset 0, each upstream   *)
(* stage after all stages outside it, each of the stage's self size) are   *)
(* pairwise disjoint and inside the buffer; the program's offsets and      *)
(* sizes are these; a word of the buffer is written exactly when it is one *)
(* of the OutputDimensions outputs of a stage that has run; and a step     *)
(* changes only words of the running stage's outputs.                      *)
C8_Layout ==
    /\ kBufferSize(Depth) = MathTotalBytes
    /\ \A k \in Stages :
          /\ kSelfBufferSize(k) = MathSelfBytes(k)
          /\ BufferOffset(k) = MathOffsetBytes(k)
          /\ 4 * dims[k + 1] <= MathSelfBytes(k)
          /\ MathOffsetBytes(k) + MathSelfBytes(k) <= MathTotalBytes
          /\ \A j \in Stages : j # k =>
                \/ MathOffsetBytes(j) + MathSelfBytes(j) <= MathOffsetBytes(k)
                \/ MathOffsetBytes(k) + MathSelfBytes(k) <= MathOffsetBytes(j)
    /\ MathOffsetBytes(Depth) = 0
C8_InOutputs(k, w) ==
    /\ 4 * w >= MathOffsetBytes(k)
    /\ 4 * w < MathOffsetBytes(k) + 4 * dims[k + 1]
C8_Written ==
    \A e \in DOMAIN epc : \A w \in DOMAIN buf[e] :
        buf[e][w] # <<>> <=> \E k \in Stages : Ran(e, k) /\ C8_InOutputs(k, w)
C8_Step ==
    \A e \in DOMAIN epc : \A w \in DOMAIN buf[e] :
        buf'[e][w] # buf[e][w] => epc[e] \in Stages /\ C8_InOutputs(epc[e], w)
C8_OwnSubRegionOnly == [](C8_Layout /\ C8_Written) /\ [][C8_Step]_vars

(* witness: a two-stage chain has run, the inner stage's 17 outputs take   *)
(* two cache lines, and both sub-regions hold their outputs                *)
C8_Witness ==
    /\ Depth = 2 /\ dims[2] = 17 /\ epc[1] = 3
    /\ buf[1][0] # <<>> /\ buf[1][16 + 16] # <<>> /\ buf[1][1] = <<>>

----------------------------------------------------------------------------
(* Concurrent evaluations over one loaded chain, each with its own buffer  *)

ConcPatterns ==
    { [b |-> 1000,     w |-> <<127, -128, 5>>],
      [b |-> 16909060, w |-> <<127, 127, 1>>] }
ConcFeatures == {<<127, 127, 127>>, <<128, 1, 200>>}

ConcInit ==
    /\ LoadedInit(Shapes({2}, {MaxOut}), ConcPatterns, NumEval)
    /\ \A e \in 1..NumEval : \E f \in ConcFeatures : feat[e] = FeatureVector(f, 2)
SpecConc == ConcInit /\ [][PropNext]_vars

(* what evaluation e's Propagate returns for stage k when nothing else     *)
(* runs: the kernel applied stage by stage to the features, output i at    *)
(* index i + 1                                                             *)
RECURSIVE AloneRows(_, _, _), AloneRun(_, _)
AloneRows(k, x, n) ==
    IF n = 0 THEN <<>>
    ELSE Append(AloneRows(k, x, n - 1), Kernel(kernel, k, n - 1, x))
AloneRun(e, k) ==
    IF k = 1 THEN AloneRows(1, feat[e], dims[2])
    ELSE LET up == AloneRun(e, k - 1)
             x == [j \in 1..MathPadded(dims[k]) |->
                      IF j <= dims[k] THEN Activation(<<up[j].v>>) ELSE 0]
         IN  AloneRows(k, x, dims[k + 1]) \o up
AloneDefined(e) ==
    LET run == AloneRun(e, Depth) IN \A n \in 1..Len(run) : ~run[n].ub

(* ---- C10 ---- *)
(* C10: no step of an evaluation changes any stage's biases or weights, or *)
(* another evaluation's buffer; and every evaluation that has returned     *)
(* holds, at the start of its own buffer, the outputs it computes when run *)
(* alone (whenever that computation is defined).                           *)
C10_Step ==
    /\ biasMem' = biasMem /\ weightMem' = weightMem
    /\ \A e \in DOMAIN epc : buf'[e] # buf[e] => epc'[e] # epc[e]
C10_Returned ==
    \A e \in DOMAIN epc :
        epc[e] = Depth + 1 =>
            LET run == AloneRun(e, Depth)
            IN  (\A n \in 1..Len(run) : ~run[n].ub) =>
                    \A i \in 1..dims[Depth + 1] : buf[e][i - 1] = <<run[i].v>>
C10_ConcurrentEvaluations == [][C10_Step]_vars /\ []C10_Returned

(* witness: two evaluations of a two-stage chain on different features     *)
(* have both returned, with different outputs, after one had finished its  *)
(* inner stage while the other had not started                             *)
C10_Witness ==
    /\ Depth = 2 /\ epc[1] = 3 /\ epc[2] = 3
    /\ feat[1] # feat[2]
    /\ buf[1][0] # buf[2][0]
    /\ AloneDefined(1) /\ AloneDefined(2)

----------------------------------------------------------------------------
(* Round trip: a chain whose arrays were set directly is evaluated          *)
(* (evaluation 1); the arrays are written out in the file layout; a chain   *)
(* of the same shape loads that file and is evaluated on the same features  *)
(* (evaluation 2).                                                          *)

RoundInit ==
    /\ LoadedInit(Shapes({33}, 1..MaxOut), ParamPatterns, 2)
    /\ feat[1] = feat[2]

(* the arrays are serialized, and the chain that will load them starts     *)
(* with nothing loaded                                                     *)
Reinstall ==
    /\ epc[1] = Depth + 1
    /\ stream = NoStream
    /\ stream' = [data |-> SerializeChain(src) \o <<7>>, pos |-> 0, fail |-> FALSE]
    /\ biasMem' = [k \in 1..Depth |-> UnloadedBias(dims, k)]
    /\ weightMem' = [k \in 1..Depth |-> UnloadedWeight(dims, k)]
    /\ lres' = [k \in 1..(Depth + 1) |-> "none"]
    /\ lcall' = -1
    /\ UNCHANGED <<dims, kernel, baseOk, src, feat, buf, epc, hashVars>>

RoundNext ==
    \/ (stream = NoStream /\ (PropagateCall(1) \/ Propagate(1)))
    \/ Reinstall
    \/ LoadCall \/ LoadInputLayer \/ LoadStep
    \/ (stream # NoStream /\ (PropagateCall(2) \/ Propagate(2)))
SpecRound == RoundInit /\ [][RoundNext]_vars

(* no signed addition overflowed in what evaluation e has computed *)
RoundDefined(e) ==
    \A k \in Stages : \A i \in 0..(dims[k + 1] - 1) :
        ~Kernel(kernel, k, i, MathInput(e, k)).ub

(* ---- C9 ---- *)
(* C9: loading the serialized arrays succeeds, leaves the stream just past  *)
(* the chain's sections, and the evaluation of the loaded chain returns the *)
(* outputs that the evaluation of the directly constructed chain returned   *)
(* on the same features (whenever the computation is defined).              *)
C9_RoundTrip ==
    /\ (stream # NoStream /\ lcall = Depth + 1) =>
          LoadResult = "ok" /\ stream.pos = MathChainBytes
    /\ (stream # NoStream /\ epc[2] = Depth + 1 /\ RoundDefined(2)) =>
          \A i \in 0..(dims[Depth + 1] - 1) : buf[2][i] = buf[1][i]

(* witness: a two-stage chain with non-zero weights, loaded from the file,  *)
(* has returned non-zero outputs for evaluation 2                           *)
C9_Witness ==
    /\ Depth = 2 /\ stream # NoStream /\ LoadResult = "ok"
    /\ epc[2] = 3 /\ RoundDefined(2)
    /\ MathWeight(2, 0, 0) # 0
    /\ buf[2][0] # <<0>> /\ buf[2][0] # <<MathBias(2, 0)>>

====
